---- MODULE Spec2Model ----
(***************************************************************************)
(* A model of src/main.rs: the chunked, multi-threaded min/max/mean        *)
(* aggregation of a "key;value\n" file.                                    *)
(*                                                                         *)
(* Bytes are their ASCII codes, buffers are sequences of bytes.  Rust      *)
(* indices are 0-based and are kept 0-based here; At and Slice translate   *)
(* to TLA+'s 1-based sequences.                                            *)
(*                                                                         *)
(* CHUNK_SIZE, CHUNK_EXCESS, DISPATCH_LOOPS and KEY_CAP carry the source's *)
(* names but are scaled down so that TLC can enumerate whole files         *)
(* (source: 1 MiB, 64, 128 and 32).  The code of read_chunk, dispatch and  *)
(* process_chunk_v2 is translated in terms of these names only.            *)
(*                                                                         *)
(* Environment assumptions: a positioned read that succeeds returns every  *)
(* byte up to the end of the file; panics unwind the panicking thread      *)
(* (Rust's default panic strategy); File::open, try_clone and metadata     *)
(* succeed.  The build profile is not part of the repository: integer      *)
(* overflow panics (overflow checks on, "debug") or wraps ("release").     *)
(***************************************************************************)
EXTENDS Integers, Sequences, FiniteSets

\* ---------------------------------------------------------------- bounds

\* The largest number of lines of an input file.
MaxLines == 2

\* The largest number of positioned reads that fail in one run.
MaxReadErrors == 1

\* ------------------------------------------------------ program constants

DISPATCH_LOOPS == 2

CHUNK_SIZE == 6

CHUNK_EXCESS == 16

\* The length of Key = [u8; 32].
KEY_CAP == 2

I32_MAX == 2147483647

I32_MIN == -I32_MAX - 1

NL == 10

SEMI == 59

MINUS == 45

CH_0 == 48

CH_9 == 57

\* -------------------------------------------------------------- helpers

MaxOf(a, b) == IF a >= b THEN a ELSE b

MinOf(a, b) == IF a <= b THEN a ELSE b

\* buf[i] of Rust.
At(buf, i) == buf[i + 1]

\* buf[a..b] of Rust.
Slice(buf, a, b) == SubSeq(buf, a + 1, b)

Zeros(n) == [i \in 1..n |-> 0]

\* Body(e), with e evaluated once, before Body.
Let(e, Body(_)) == CHOOSE out \in {Body(x) : x \in {e}} : TRUE

\* The indices i..Len(buf)-1 of buf that hold b1 or b2, ascending.
RECURSIVE Positions(_, _, _, _)
Positions(b1, b2, buf, i) ==
    IF i >= Len(buf) THEN <<>>
    ELSE IF At(buf, i) = b1 \/ At(buf, i) = b2
         THEN <<i>> \o Positions(b1, b2, buf, i + 1)
         ELSE Positions(b1, b2, buf, i + 1)

\* The first index from i of buf that holds b1 or b2, or -1.
RECURSIVE FirstFrom(_, _, _, _)
FirstFrom(b1, b2, buf, i) ==
    IF i >= Len(buf) THEN -1
    ELSE IF At(buf, i) = b1 \/ At(buf, i) = b2 THEN i
         ELSE FirstFrom(b1, b2, buf, i + 1)

\* memchr::memchr: the first index of byte in buf, or -1 for None.
Memchr(byte, buf) == FirstFrom(byte, byte, buf, 0)

\* memchr::memchr2: the first index of either byte, or -1 for None.
Memchr2(b1, b2, buf) == FirstFrom(b1, b2, buf, 0)

\* memchr::memchr2_iter: every index of either byte, ascending.
Memchr2Iter(b1, b2, buf) == Positions(b1, b2, buf, 0)

\* ------------------------------------------------------ i32 arithmetic
\* Each operation yields the wrapped (two's complement) result and whether
\* the exact result left the i32 range.  No intermediate value leaves it.

AddOverflows(a, b) ==
    \/ (b > 0 /\ a > I32_MAX - b)
    \/ (b < 0 /\ a < I32_MIN - b)

WrapAdd(a, b) ==
    IF b > 0 /\ a > I32_MAX - b THEN ((a - I32_MAX) + (b - I32_MAX)) - 2
    ELSE IF b < 0 /\ a < I32_MIN - b THEN ((a + I32_MAX) + (b + I32_MAX)) + 2
    ELSE a + b

Mul10Overflows(x) == x > I32_MAX \div 10 \/ x < -(I32_MAX \div 10)

WrapMul10(x) ==
    LET x2 == WrapAdd(x, x)
        x4 == WrapAdd(x2, x2)
        x8 == WrapAdd(x4, x4)
    IN WrapAdd(x8, x2)

WrapNeg(x) == IF x = I32_MIN THEN I32_MIN ELSE -x

\* ------------------------------------------------------------ the parser

IsDigit(byte) == byte >= CH_0 /\ byte <= CH_9

\* The while loop of fixed_point_parse from index i with accumulator res:
\* a non-digit byte ends the loop.
RECURSIVE ParseDigits(_, _, _, _)
ParseDigits(b, i, res, ovf) ==
    IF i < Len(b) /\ IsDigit(At(b, i))
    THEN LET m == WrapMul10(res)
             d == At(b, i) - CH_0
         IN ParseDigits(b, i + 1, WrapAdd(m, d),
                        ovf \/ Mul10Overflows(res) \/ AddOverflows(m, d))
    ELSE [val |-> res, ovf |-> ovf]

fixed_point_parse(b) ==
    LET sign == Len(b) > 0 /\ At(b, 0) = MINUS
        r == ParseDigits(b, IF sign THEN 1 ELSE 0, 0, FALSE)
    IN IF sign
       THEN [val |-> WrapNeg(r.val), ovf |-> r.ovf \/ r.val = I32_MIN]
       ELSE r

\* ------------------------------------------------------------- records

\* Record::new
RecordNew(value) == [max |-> value, min |-> value, count |-> 1, sum |-> value]

\* The update of an existing record with one observation.
RecordObserve(record, value) ==
    [max |-> MaxOf(record.max, value),
     min |-> MinOf(record.min, value),
     count |-> WrapAdd(record.count, 1),
     sum |-> WrapAdd(record.sum, value)]

ObserveOverflows(record, value) ==
    AddOverflows(record.count, 1) \/ AddOverflows(record.sum, value)

\* MergeRecord with the count and the sum assigned, not added.
MergeRecord_Assign(record, other) ==
    [max |-> MaxOf(record.max, other.max),
     min |-> MinOf(record.min, other.min),
     count |-> other.count,
     sum |-> other.sum]

\* The merge of two records of one key.
MergeRecord(record, other) ==
    [max |-> MaxOf(record.max, other.max),
     min |-> MinOf(record.min, other.min),
     count |-> WrapAdd(record.count, other.count),
     sum |-> WrapAdd(record.sum, other.sum)]

MergeOverflows(record, other) ==
    AddOverflows(record.count, other.count) \/ AddOverflows(record.sum, other.sum)

EmptyMap == [k \in {} |-> 0]

\* The loop over the entries of other, merging each into map.  The entries
\* have distinct keys, so the order of the hash map's iteration is immaterial
\* to the result.  status is "panic_overflow" when an addition overflows in a
\* build with overflow checks.
MergeMaps(map, other, mode) ==
    LET both == DOMAIN map \cap DOMAIN other
        ovf == \E k \in both : MergeOverflows(map[k], other[k])
    IN [map |-> [k \in DOMAIN map \cup DOMAIN other |->
                    IF k \in both THEN MergeRecord(map[k], other[k])
                    ELSE IF k \in DOMAIN map THEN map[k] ELSE other[k]],
        status |-> IF ovf /\ mode = "debug" THEN "panic_overflow" ELSE "ok",
        wrapped |-> ovf]

\* ---------------------------------------------------------- read_chunk

\* file.read_at(buffer, offset): the bytes of the file from offset, as many
\* as the buffer holds, land at the front of buffer; the rest of buffer keeps
\* what it held.
ReadAt(file, offset, buffer) ==
    LET avail == IF offset < Len(file) THEN Len(file) - offset ELSE 0
        n == MinOf(avail, Len(buffer))
    IN [n |-> n,
        buffer |-> Slice(file, offset, offset + n) \o Slice(buffer, n, Len(buffer))]

\* FillFrom that leaves the buffer as it is.
FillFrom_Skip(buffer, n) == buffer

\* buffer[n..].fill(0)
FillFrom(buffer, n) == Slice(buffer, 0, n) \o Zeros(Len(buffer) - n)

\* ok: whether the positioned reads succeed.  buffer: the caller's buffer,
\* contents included.  Yields the buffer after the call, (start, end), and
\* the number of bytes the read delivered.  read_exact_at succeeds exactly
\* when the file holds a whole buffer from offset, and then leaves what
\* read_at leaves.
read_chunk(file, offset, buffer, ok) ==
    LET total_len == Len(buffer)
        core_len == total_len - CHUNK_EXCESS
    IN IF ~ok
       THEN [buffer |-> FillFrom(buffer, 0), start |-> 0, end |-> 0, n |-> 0]
       ELSE Let(ReadAt(file, offset, buffer),
                LAMBDA r :
            Let(IF r.n = total_len THEN r.buffer ELSE FillFrom(r.buffer, r.n),
                LAMBDA filled :
            Let(<<Memchr(NL, filled),
                  Memchr2(NL, 0, Slice(filled, core_len, total_len))>>,
                LAMBDA m :
                [buffer |-> filled,
                 start |-> IF offset # 0
                           THEN (IF m[1] = -1 THEN 0 ELSE m[1] + 1)
                           ELSE 0,
                 end |-> IF m[2] # -1 THEN core_len + m[2] + 1 ELSE total_len,
                 n |-> r.n])))

\* ----------------------------------------------------- process_chunk_v2

\* The key array of one record: the key's bytes, zero-padded to KEY_CAP.
\* Defined for a key of at most KEY_CAP bytes; the caller panics otherwise.
KeyOf(buffer, prev_end, semi) ==
    Slice(buffer, prev_end, semi) \o Zeros(KEY_CAP - (semi - prev_end))

\* The get_mut / insert of process_chunk_v2: the record of arr is updated
\* with value, or created from it.
Accumulate(bmap, arr, value) ==
    [x \in DOMAIN bmap \cup {arr} |->
        IF x # arr THEN bmap[x]
        ELSE IF arr \in DOMAIN bmap THEN RecordObserve(bmap[arr], value)
        ELSE RecordNew(value)]

\* The while-let loop of process_chunk_v2: ends is the sequence the memchr2
\* iterator yields, k the number of pairs taken from it so far.  acc.toks
\* records each (key, value) pair the loop has taken and aggregated, by its
\* place in buffer.
RECURSIVE ProcessLoop(_, _, _, _, _, _)
ProcessLoop(buffer, ends, k, prev_end, mode, acc) ==
    IF 2 * k + 2 > Len(ends)
    THEN acc
    ELSE LET semi == ends[2 * k + 1]
             end == ends[2 * k + 2]
         IN IF semi - prev_end > KEY_CAP
            THEN [acc EXCEPT !.status = "panic_key"]
            ELSE Let(<<KeyOf(buffer, prev_end, semi),
                       fixed_point_parse(Slice(buffer, semi + 1, end))>>,
                     LAMBDA kv :
                 LET arr == kv[1]
                     value == kv[2].val
                     present == arr \in DOMAIN acc.map
                     ovf == kv[2].ovf \/ (present /\ ObserveOverflows(acc.map[arr], value))
                     tok == [s |-> prev_end, e |-> end, key |-> arr,
                             vbytes |-> Slice(buffer, semi + 1, end), value |-> value]
                     bmap == Accumulate(acc.map, arr, value)
                 IN IF ovf /\ mode = "debug"
                    THEN [acc EXCEPT !.status = "panic_overflow", !.wrapped = TRUE]
                    ELSE Let([map |-> bmap, status |-> "ok",
                              wrapped |-> acc.wrapped \/ ovf,
                              toks |-> acc.toks \cup {tok}],
                             LAMBDA nx : ProcessLoop(buffer, ends, k + 1, end + 1, mode, nx)))

process_chunk_v2(buffer, mode) ==
    Let(Memchr2Iter(SEMI, NL, buffer),
        LAMBDA ends :
            ProcessLoop(buffer, ends, 0, 0, mode,
                        [map |-> EmptyMap, status |-> "ok", wrapped |-> FALSE,
                         toks |-> {}]))

\* -------------------------------------------------------------- inputs

\* "a;1.5", "a;-2.0", "ab;9.9" (a key of KEY_CAP bytes), "abc;1.0" (a key
\* longer than KEY_CAP) and "a;2147483647.0" (i32::MAX), each without its
\* terminator.
LineSet ==
    { <<97, 59, 49, 46, 53>>,
      <<97, 59, 45, 50, 46, 48>>,
      <<97, 98, 59, 57, 46, 57>>,
      <<97, 98, 99, 59, 49, 46, 48>>,
      <<97, 59, 50, 49, 52, 55, 52, 56, 51, 54, 52, 55, 46, 48>> }

RECURSIVE Concat(_)
Concat(ls) == IF ls = <<>> THEN <<>> ELSE Head(ls) \o <<NL>> \o Concat(Tail(ls))

LineSeqs == UNION {[1..n -> LineSet] : n \in 0..MaxLines}

\* Every file of at most MaxLines lines of LineSet, the last line with or
\* without its terminator.
Files ==
    {Concat(ls) : ls \in LineSeqs}
    \cup {SubSeq(Concat(ls), 1, Len(Concat(ls)) - 1) : ls \in LineSeqs \ {<<>>}}

\* ------------------------------------------------------------ dispatch

\* Where a pair taken at [s, e] of the slice buffer[start..end] of the chunk
\* at off lies in the file, and whether its terminator lies at or beyond
\* the n bytes the read delivered.
Place(t, off, rc) ==
    [chunk |-> off, s |-> off + rc.start + t.s, e |-> off + rc.start + t.e,
     key |-> t.key, vbytes |-> t.vbytes, value |-> t.value,
     tail |-> rc.start + t.e >= rc.n]

\* The for loop of dispatch from iteration i.  fails: the iterations whose
\* read fails.  st: the buffer and the map as they stand, with the pairs
\* taken and the reads failed so far.  A slice buffer[start..end] with
\* start > end panics.
RECURSIVE DispatchLoop(_, _, _, _, _, _, _)
DispatchLoop(f, offset, file_len, i, fails, mode, st) ==
    IF i >= DISPATCH_LOOPS \/ offset + CHUNK_SIZE * i >= file_len
    THEN st
    ELSE Let(read_chunk(f, offset + CHUNK_SIZE * i, st.buffer, i \notin fails),
             LAMBDA rc :
         Let(IF rc.start <= rc.end
             THEN Let(Slice(rc.buffer, rc.start, rc.end),
                      LAMBDA slice : process_chunk_v2(slice, mode))
             ELSE [map |-> EmptyMap, status |-> "panic_slice",
                   wrapped |-> FALSE, toks |-> {}],
             LAMBDA pc :
         Let(MergeMaps(st.map, pc.map, mode),
             LAMBDA mg :
         Let([buffer |-> rc.buffer,
              map |-> mg.map,
              status |-> IF pc.status # "ok" THEN pc.status ELSE mg.status,
              wrapped |-> st.wrapped \/ pc.wrapped \/ (pc.status = "ok" /\ mg.wrapped),
              toks |-> st.toks \cup
                         {Place(t, offset + CHUNK_SIZE * i, rc) : t \in pc.toks},
              nfail |-> IF i \in fails THEN st.nfail + 1 ELSE st.nfail],
             LAMBDA nx :
                 IF nx.status # "ok"
                 THEN nx
                 ELSE DispatchLoop(f, offset, file_len, i + 1, fails, mode, nx)))))

dispatch(f, offset, file_len, fails, mode) ==
    DispatchLoop(f, offset, file_len, 0, fails, mode,
                 [buffer |-> Zeros(CHUNK_SIZE + CHUNK_EXCESS), map |-> EmptyMap,
                  status |-> "ok", wrapped |-> FALSE, toks |-> {}, nfail |-> 0])

\* ---------------------------------------------------------------- state

VARIABLES
    file,        \* the bytes of the input file, never written
    build,       \* "unknown" until an addition overflows, then "debug" or "release"
    mainpc,      \* main: "spawn", "recv", "done" or "panicked"
    offset,      \* main's offset
    parts,       \* main's parts
    map,         \* main's map
    received,    \* the tables rx.recv() has yielded to main's receive loop
    workers,     \* the spawned threads, in spawn order
    channel,     \* the tables sent and not yet received, in send order
    emitted,     \* history: the (key, value) pairs the tokenizers have taken
    readErrors,  \* history: the number of reads that failed
    arrivals     \* history: the threads that have sent, in send order

vars == <<file, build, mainpc, offset, parts, map, received, workers, channel,
          emitted, readErrors, arrivals>>

Init ==
    /\ file \in Files
    /\ build = "unknown"
    /\ mainpc = "spawn"
    /\ offset = 0
    /\ parts = 0
    /\ map = EmptyMap
    /\ received = 0
    /\ workers = <<>>
    /\ channel = <<>>
    /\ emitted = {}
    /\ readErrors = 0
    /\ arrivals = <<>>

\* The builds an overflow may still turn out to run under.
Modes == IF build = "unknown" THEN {"debug", "release"} ELSE {build}

\* The iterations of the dispatch loop of the thread at off that read.
Iterations(off) ==
    {i \in 0..(DISPATCH_LOOPS - 1) : off + CHUNK_SIZE * i < Len(file)}

\* The sets of iterations whose read may fail, within the run's bound.
FailSets(off) ==
    {F \in SUBSET Iterations(off) : Cardinality(F) <= MaxReadErrors - readErrors}

\* --------------------------------------------------------------- actions

\* One iteration of main's while loop: a thread is spawned for offset.
MainSpawn ==
    /\ mainpc = "spawn"
    /\ offset < Len(file)
    /\ workers' = Append(workers,
                         [state |-> "running", offset |-> offset, cause |-> "none"])
    /\ offset' = offset + CHUNK_SIZE * DISPATCH_LOOPS
    /\ parts' = parts + 1
    /\ UNCHANGED <<file, build, mainpc, map, received, channel, emitted, readErrors, arrivals>>

\* The while loop ends.
MainSpawnExit ==
    /\ mainpc = "spawn"
    /\ ~(offset < Len(file))
    /\ mainpc' = "recv"
    /\ UNCHANGED <<file, build, offset, parts, map, received, workers, channel,
                   emitted, readErrors, arrivals>>

\* The body of thread w: tx.send(dispatch(&file_c, offset, file_len)).unwrap().
\* The threads share nothing but the file, which none writes, so the body is
\* one step.  A panic in dispatch unwinds the thread, which sends nothing.
\* A panic of main ends the process, and every thread with it.
WorkerRun(w) ==
    /\ mainpc # "panicked"
    /\ workers[w].state = "running"
    /\ \E fails \in FailSets(workers[w].offset), mode \in Modes :
          \E d \in {dispatch(file, workers[w].offset, Len(file), fails, mode)} :
             /\ IF d.status = "ok"
                THEN /\ channel' = Append(channel, d.map)
                     /\ arrivals' = Append(arrivals, w)
                     /\ workers' = [workers EXCEPT ![w].state = "sent"]
                ELSE /\ UNCHANGED <<channel, arrivals>>
                     /\ workers' = [workers EXCEPT ![w].state = "panicked",
                                                   ![w].cause = d.status]
             /\ build' = IF d.wrapped THEN mode ELSE build
             /\ emitted' = emitted \cup d.toks
             /\ readErrors' = readErrors + d.nfail
    /\ UNCHANGED <<file, mainpc, offset, parts, map, received>>

\* One iteration of main's receive loop: rx.recv() yields the oldest table,
\* which is drained into map.  main's own tx is alive for the whole of main,
\* so recv blocks while the channel is empty and never yields Err.  An
\* overflow in a build with overflow checks panics main.
MainRecv ==
    /\ mainpc = "recv"
    /\ received < parts
    /\ channel # <<>>
    /\ \E mode \in Modes :
          \E mg \in {MergeMaps(map, Head(channel), mode)} :
             /\ IF mg.status = "ok"
                THEN /\ map' = mg.map
                     /\ mainpc' = mainpc
                ELSE /\ mainpc' = "panicked"
                     /\ map' = map
             /\ received' = received + 1
             /\ build' = IF mg.wrapped THEN mode ELSE build
    /\ channel' = Tail(channel)
    /\ UNCHANGED <<file, offset, parts, workers, emitted, readErrors, arrivals>>

\* MainWrite with the receive loop one iteration short.
MainWrite_Early ==
    /\ mainpc = "recv"
    /\ ~(received + 1 < parts)
    /\ mainpc' = "done"
    /\ UNCHANGED <<file, build, offset, parts, map, received, workers, channel,
                   emitted, readErrors, arrivals>>

\* The receive loop has ended: main writes a line for every entry of map to
\* out.txt and returns.
MainWrite ==
    /\ mainpc = "recv"
    /\ ~(received < parts)
    /\ mainpc' = "done"
    /\ UNCHANGED <<file, build, offset, parts, map, received, workers, channel,
                   emitted, readErrors, arrivals>>

Next ==
    \/ MainSpawn
    \/ MainSpawnExit
    \/ \E w \in 1..Len(workers) : WorkerRun(w)
    \/ MainRecv
    \/ MainWrite

Spec == Init /\ [][Next]_vars

\* ------------------------------------------------------------ properties

Done == mainpc = "done"

Panicked(w) == workers[w].state = "panicked"

Running(w) == workers[w].state = "running"

\* The thread whose dispatch loop reads the chunk at off.
WorkerOf(off) == off \div (CHUNK_SIZE * DISPATCH_LOOPS)

\* The lines of f: each from its first byte s to its terminator e; the last
\* line of a file that does not end in a terminator ends at Len(f).
LinesOf(f) ==
    LET nls == {i \in 0..(Len(f) - 1) : At(f, i) = NL}
        starts == {s \in 0..(Len(f) - 1) : s = 0 \/ At(f, s - 1) = NL}
    IN {[s |-> s,
         e |-> IF \E i \in nls : i >= s
               THEN CHOOSE i \in nls : i >= s /\ \A j \in nls : j >= s => i <= j
               ELSE Len(f)] : s \in starts}

Terminated(f) == Len(f) = 0 \/ At(f, Len(f) - 1) = NL

\* The key of line l of f is at most KEY_CAP bytes and the line, terminator
\* included, at most CHUNK_EXCESS bytes.
FitsLine(f, l) ==
    /\ l.e - l.s + 1 <= CHUNK_EXCESS
    /\ \E i \in l.s..(l.s + KEY_CAP) : i < Len(f) /\ At(f, i) = SEMI

\* The number of times line l has been tokenized.
Taken(l) == Cardinality({t \in emitted : t.s = l.s /\ t.e = l.e})

\* The value of digits as a base-10 number.
RECURSIVE DigitsValue(_)
DigitsValue(ds) ==
    IF ds = <<>> THEN 0
    ELSE DigitsValue(SubSeq(ds, 1, Len(ds) - 1)) * 10 + (ds[Len(ds)] - CH_0)

Unsigned(v) == IF Len(v) > 0 /\ v[1] = MINUS THEN Tail(v) ELSE v

\* v is an optional '-', one to five digits, a '.', and one digit.
WellFormedValue(v) ==
    LET u == Unsigned(v)
    IN /\ Len(u) >= 3
       /\ Len(u) <= 7
       /\ u[Len(u) - 1] = 46
       /\ \A i \in 1..Len(u) : i # Len(u) - 1 => IsDigit(u[i])

\* The decimal number v, times ten.
Tenths(v) ==
    LET u == Unsigned(v)
        n == DigitsValue(SubSeq(u, 1, Len(u) - 2)) * 10 + (u[Len(u)] - CH_0)
    IN IF u = v THEN n ELSE -n

\* The table of one pass over toks in file order.
RECURSIVE OnePass(_, _)
OnePass(toks, m) ==
    IF toks = {} THEN m
    ELSE Let(CHOOSE t \in toks :
                 \A u \in toks : t.s < u.s \/ (t.s = u.s /\ t.chunk <= u.chunk),
             LAMBDA t : Let(Accumulate(m, t.key, t.value),
                            LAMBDA m2 : OnePass(toks \ {t}, m2)))

\* C1: when the job completes on a file every read of which succeeded and
\* every line of which fits the key array and the excess margin, every line
\* of the file has been tokenized exactly once, and nothing but the file's
\* lines has been tokenized.
C1_EveryLineOnce ==
    (Done /\ readErrors = 0 /\ \A l \in LinesOf(file) : FitsLine(file, l))
    => /\ \A l \in LinesOf(file) : Taken(l) = 1
       /\ \A t \in emitted : \E l \in LinesOf(file) : t.s = l.s /\ t.e = l.e

\* The part of C1 the code keeps: the same, of the lines that end in a
\* terminator.
TerminatedLinesOnce ==
    (Done /\ readErrors = 0 /\ \A l \in LinesOf(file) : FitsLine(file, l))
    => /\ \A l \in LinesOf(file) : l.e < Len(file) => Taken(l) = 1
       /\ \A t \in emitted :
             \E l \in LinesOf(file) : l.e < Len(file) /\ t.s = l.s /\ t.e = l.e

\* C2: when the job completes on a file whose last line has no terminator
\* (every read succeeded, every line fits), the last line has been tokenized
\* and its key's count in the final table includes it.
C2_LastLineCounted ==
    (Done /\ readErrors = 0 /\ ~Terminated(file)
          /\ \A l \in LinesOf(file) : FitsLine(file, l))
    => \A l \in LinesOf(file) :
          l.e = Len(file)
          => \E t \in emitted :
                 /\ t.s = l.s
                 /\ t.key \in DOMAIN map
                 /\ map[t.key].count = Cardinality({u \in emitted : u.key = t.key})

\* C3: the value parsed from every well-formed value (optional '-', digits,
\* '.', one fractional digit) is the decimal number times ten.
C3_ParseIsTenths ==
    \A t \in emitted : WellFormedValue(t.vbytes) => t.value = Tenths(t.vbytes)

\* C4: the table main ends with is the table of one pass over all the
\* observations, whatever the chunks, the threads and the order of arrival.
C4_MergeIsOnePass == Done => map = OnePass(emitted, EmptyMap)

\* C4's case: a completed job, free of overflow, in which two threads
\* observed the same key and the table of the later thread arrived first.
C4_Witness ==
    /\ Done
    /\ build = "unknown"
    /\ arrivals = <<2, 1>>
    /\ \E t1 \in emitted, t2 \in emitted :
          t1.key = t2.key /\ WorkerOf(t1.chunk) # WorkerOf(t2.chunk)

\* main waits in rx.recv() for a table no thread is left to send.
BlockedForever ==
    /\ mainpc = "recv"
    /\ received < parts
    /\ channel = <<>>
    /\ \A w \in 1..Len(workers) : ~Running(w)

\* C5: when a thread has panicked, main neither waits forever for its table
\* nor writes an output.
C5_PanicAborts ==
    (\E w \in 1..Len(workers) : Panicked(w)) => (~BlockedForever /\ ~Done)

\* C6: after a read has failed, the job does not complete.
C6_ReadErrorFatal == readErrors > 0 => ~Done

\* C7: a line whose key is longer than the key array does not panic the
\* thread that processes it.
C7_LongKeyNoPanic ==
    \A w \in 1..Len(workers) : workers[w].cause # "panic_key"

\* C8: no addition of the records' i32 fields overflows, and every count of
\* the final table is the number of observations of its key.
C8_NoOverflow ==
    /\ build = "unknown"
    /\ Done => \A k \in DOMAIN map :
                  map[k].count = Cardinality({t \in emitted : t.key = k})

\* C9: as long as no thread has panicked, the tables sent are the tables
\* received and those in the channel, one per thread that has ended; main is
\* never blocked with no thread left to send; main writes only after it has
\* received one table from each thread spawned; nothing is spawned for an empty file, whose table is empty.
C9_OneTablePerWorker ==
    (\A w \in 1..Len(workers) : ~Panicked(w))
    => /\ received + Len(channel)
            = Cardinality({w \in 1..Len(workers) : workers[w].state = "sent"})
       /\ arrivals \in [1..Len(arrivals) -> 1..Len(workers)]
       /\ \A i, j \in 1..Len(arrivals) : arrivals[i] = arrivals[j] => i = j
       /\ received <= parts
       /\ ~BlockedForever
       /\ Done => /\ received = parts
                  /\ parts = Len(workers)
                  /\ channel = <<>>
                  /\ \A w \in 1..Len(workers) : workers[w].state = "sent"
       /\ (Done /\ Len(file) = 0) => (parts = 0 /\ map = EmptyMap)

\* C9's case: a completed job of several threads.
C9_Witness == Done /\ parts >= 2 /\ received = parts

\* C10: no pair is taken whose bytes reach beyond the bytes the read
\* delivered.
C10_NoPairFromTail == \A t \in emitted : ~t.tail

\* C10's case: a pair taken from a short read into a buffer that an earlier
\* iteration of the same dispatch loop had filled.
C10_Witness ==
    \E t \in emitted :
        /\ t.chunk % (CHUNK_SIZE * DISPATCH_LOOPS) # 0
        /\ t.chunk + CHUNK_SIZE + CHUNK_EXCESS > Len(file)

====
